---- MODULE Spec2Model ----
(***************************************************************************)
(* Model of relief_weekly_streamlit_app_final.py: one run of the Streamlit *)
(* script, from the uploaded reports to the exported KPI workbook.         *)
(*                                                                         *)
(* Encoding of pandas values.                                              *)
(*   - A numeric or date cell is a pair <<tag, n>>:                        *)
(*       <<"num", n>>   the number n            <<"date", d>>  day d       *)
(*       <<"nan", 0>>   NaN / NaT / empty cell  <<"bad", 0>>   text that   *)
(*                                              does not parse             *)
(*     Days are counted from 2024-01-01 (day 0) in the Gregorian calendar. *)
(*   - A text cell is a string; NaText stands for an empty (NaN) cell.     *)
(*   - A month label '%Y-%m' is <<"ym", yyyymm>>, 'Unknown' is             *)
(*     <<"Unknown", 0>>, a missing label is <<"nan", 0>>, the text 'NaT'   *)
(*     is <<"NaT", 0>>.                                                    *)
(*   - A batch (DataFrame) is [loaded, cols, rows]: rows is a sequence of  *)
(*     functions from cols to cells.  A computed table is [made, rows].    *)
(*   - A text in a date column is <<"dtext", yyyymmdd>>, the digits of the *)
(*     text 'YYYY-MM-DD'; a text in a check-number column is <<"text", s>>;*)
(*     the empty text '' of a total row is <<"empty", 0>>.                 *)
(***************************************************************************)
EXTENDS Integers, Sequences, FiniteSets, TLC

VARIABLES
  file_371, name_371, file_123, file_era, enable_export, today,
  pc, error,
  df371, df123, line_items, claims,
  pt_full, major, aging_df, aging_summary_full, monthly_summary_full,
  payments_by_payer_final, unposted, era_full, den_summary, workbook,
  dos_col, date123_col, pm_counts, payments_by_payer, minor_threshold_amount

vars == << file_371, name_371, file_123, file_era, enable_export, today, pc, error,
           df371, df123, line_items, claims, pt_full, major, aging_df,
           aging_summary_full, monthly_summary_full, payments_by_payer_final,
           unposted, era_full, den_summary, workbook, dos_col, date123_col,
           pm_counts, payments_by_payer, minor_threshold_amount >>

inputs == << file_371, name_371, file_123, file_era, enable_export, today >>

\* ------------------------------------------------------------------ bounds
MaxLines == 2
MaxShareClaims == 8
MaxPayerClaims == 11
MaxAgingDays == 122
MaxPayLines == 3
MaxTxns == 2
MaxEra == 2

\* ------------------------------------------------------- program constants
\* date(2024, 11, 1), the 305th day after 2024-01-01.
DOS_CUTOFF == 305
EXCLUDE_PROVIDER == "salah, ahmad"
minor_threshold == 10
\* The value AgingDays.fillna() puts for a missing age.
SentinelAging == 999999
\* date.today() of the run: 2025-05-15.
TodayDay == 500

GrandTotal == "Grand Total"
OtherMinor == "Other minor payers"
NaText == "<NaN>"
NaN == <<"nan", 0>>
Num(n) == <<"num", n>>
Date(d) == <<"date", d>>
Bad == <<"bad", 0>>

\* ---------------------------------------------------------- generic helpers
RECURSIVE SumSeq(_)
SumSeq(s) == IF s = <<>> THEN 0 ELSE Head(s) + SumSeq(Tail(s))

\* The permutations of a sequence.
Perms(s) ==
  { [ i \in DOMAIN s |-> s[p[i]] ] :
      p \in { q \in [ DOMAIN s -> DOMAIN s ] :
                \A i, j \in DOMAIN s : i # j => q[i] # q[j] } }

\* A row with one more (or one replaced) column.
WithCol(r, c, v) == [ k \in (DOMAIN r) \cup {c} |-> IF k = c THEN v ELSE r[k] ]

NoBatch == [ loaded |-> FALSE, cols |-> {}, rows |-> <<>> ]
Batch(cols, rows) == [ loaded |-> TRUE, cols |-> cols, rows |-> rows ]
NoTable == [ made |-> FALSE, rows |-> <<>> ]
Table(rows) == [ made |-> TRUE, rows |-> rows ]

\* ------------------------------------------------------------- text cells
\* str.lower(), str.upper() and str.strip() on the texts the inputs hold.
StrLower(s) ==
  CASE s = " Salah, Ahmad " -> " salah, ahmad "
    [] s = "SALAH, AHMAD" -> "salah, ahmad"
    [] s = "Lee, Ann" -> "lee, ann"
    [] s = "Roy, Bo" -> "roy, bo"
    [] s = "Billed" -> "billed"
    [] s = "Denied" -> "denied"
    [] s = "DENIAL-AUTH" -> "denial-auth"
    [] s = "Posted" -> "posted"
    [] s = "UNPOSTED" -> "unposted"
    [] OTHER -> s

StrUpper(s) ==
  CASE s = " self pay" -> " SELF PAY"
    [] s = "self pay" -> "SELF PAY"
    [] s = "Aetna" -> "AETNA"
    [] s = "Cigna" -> "CIGNA"
    [] s = "Medicare" -> "MEDICARE"
    [] s = "nan" -> "NAN"
    [] s = "pat" -> "PAT"
    [] s = "Bil" -> "BIL"
    [] OTHER -> s

StrStrip(s) ==
  CASE s = " salah, ahmad " -> "salah, ahmad"
    [] s = " Salah, Ahmad " -> "Salah, Ahmad"
    [] s = " self pay" -> "self pay"
    [] s = " SELF PAY" -> "SELF PAY"
    [] s = "Total Payment " -> "Total Payment"
    [] OTHER -> s

\* name.lower().endswith('.csv') of an uploaded file's name.
IsCsv(name) == name \in { "r371.csv", "R371.CSV" }

\* str.contains(sub) on a text already folded to one case.
StrContains(s, sub) ==
  \/ sub = "PAT" /\ s \in { "PAT" }
  \/ sub = "den" /\ s \in { "denied", "denial-auth" }
  \/ sub = "unpost" /\ s \in { "unposted" }

\* astype(str): an empty cell becomes the text 'nan'.
AsTypeStr(s) == IF s = NaText THEN "nan" ELSE s

\* fillna(v) on a text column.
FillNaText(s, v) == IF s = NaText THEN v ELSE s

\* The order of Python's string comparison on the texts the tables hold.
StrOrder ==
  << "", " Salah, Ahmad ", " self pay", "Aetna", "Billed", "Cigna",
     "DENIAL-AUTH", "Denied", "Lee, Ann", "Medicare", "Other minor payers",
     "Roy, Bo", "SALAH, AHMAD", "Unknown", "nan" >>

StrRank(s) == CHOOSE i \in DOMAIN StrOrder : StrOrder[i] = s

\* ---------------------------------------------------- numbers and dates
IsLeap(y) == (y % 4 = 0 /\ y % 100 # 0) \/ y % 400 = 0

MonthLen(y, m) ==
  IF m = 2 THEN (IF IsLeap(y) THEN 29 ELSE 28)
  ELSE IF m \in {4, 6, 9, 11} THEN 30 ELSE 31

\* The number of days from 2024-01-01 to the first day of year y.
RECURSIVE DaysToYear(_)
DaysToYear(y) ==
  IF y = 2024 THEN 0
  ELSE IF y > 2024 THEN DaysToYear(y - 1) + (IF IsLeap(y - 1) THEN 366 ELSE 365)
       ELSE DaysToYear(y + 1) - (IF IsLeap(y) THEN 366 ELSE 365)

\* The number of days from the first day of year y to the first of month m.
RECURSIVE DaysToMonth(_, _)
DaysToMonth(y, m) == IF m = 1 THEN 0 ELSE DaysToMonth(y, m - 1) + MonthLen(y, m - 1)

\* The date a text 'YYYY-MM-DD' of digits n names; NaT when the month or the
\* day is out of the calendar.
ParseIsoText(n) ==
  LET y == n \div 10000
      m == (n \div 100) % 100
      dd == n % 100
  IN  IF m \in 1..12 /\ dd \in 1..MonthLen(y, m)
      THEN Date(DaysToYear(y) + DaysToMonth(y, m) + dd - 1)
      ELSE NaN

\* pd.to_datetime(errors='coerce'): a date stays, a text 'YYYY-MM-DD' is
\* parsed, what is no date becomes NaT.
ToDatetime(c) ==
  CASE c[1] = "date" -> c
    [] c[1] = "dtext" -> ParseIsoText(c[2])
    [] OTHER -> NaN

\* pd.to_numeric(errors='coerce'): what is no number becomes NaN.
ToNumeric(c) == IF c[1] = "num" THEN c ELSE NaN

FillNa(c, v) == IF c[1] = "nan" THEN Num(v) ELSE c

\* A sum skips NaN.
Val(c) == IF c[1] = "num" THEN c[2] ELSE 0

RECURSIVE YearMonthFrom(_, _, _)
YearMonthFrom(y, m, d) ==
  IF d < MonthLen(y, m) THEN y * 100 + m
  ELSE IF m = 12 THEN YearMonthFrom(y + 1, 1, d - MonthLen(y, m))
       ELSE YearMonthFrom(y, m + 1, d - MonthLen(y, m))

\* The digits yyyymmdd of the day d days after the first of month m of year y.
RECURSIVE YmdFrom(_, _, _)
YmdFrom(y, m, d) ==
  IF d < MonthLen(y, m) THEN y * 10000 + m * 100 + d + 1
  ELSE IF m = 12 THEN YmdFrom(y + 1, 1, d - MonthLen(y, m))
       ELSE YmdFrom(y, m + 1, d - MonthLen(y, m))

\* dt.strftime('%Y-%m'): NaT gives a missing label.
StrftimeYm(c) == IF c[1] = "date" THEN <<"ym", YearMonthFrom(2024, 1, c[2])>> ELSE NaN

\* dt.to_period('M').astype(str): NaT gives the text 'NaT'.
PeriodStr(c) == IF c[1] = "date" THEN <<"ym", YearMonthFrom(2024, 1, c[2])>> ELSE <<"NaT", 0>>

\* (today - date).dt.days
DaysBetween(t, c) == IF c[1] = "date" THEN Num(t - c[2]) ELSE NaN

\* ------------------------------------------------------- preprocessing
NoCol == ""

\* try_parse_dates: the first candidate column the batch has, parsed in place.
RECURSIVE FirstPresent(_, _)
FirstPresent(cols, col_candidates) ==
  IF col_candidates = <<>> THEN NoCol
  ELSE IF Head(col_candidates) \in cols THEN Head(col_candidates)
       ELSE FirstPresent(cols, Tail(col_candidates))

ParseDateCol(df, c) ==
  IF c = NoCol THEN df
  ELSE [ df EXCEPT !.rows = [ i \in DOMAIN df.rows |->
           [ df.rows[i] EXCEPT ![c] = ToDatetime(@) ] ] ]

try_parse_dates(df, col_candidates) ==
  ParseDateCol(df, FirstPresent(df.cols, col_candidates))

num_cols_371 ==
  { "Billed Charge", "Payer Charge", "Total Payment", "Payer Payment",
    "Patient Payment", "Contractual Adjustment", "Total(Balance)",
    "Fee Schedule Allowed Fee" }

\* pd.to_numeric(errors='coerce').fillna(0.0) on every numeric column present.
CoerceNumeric(df) ==
  [ df EXCEPT !.rows = [ i \in DOMAIN df.rows |->
      [ c \in DOMAIN df.rows[i] |->
          IF c \in num_cols_371 THEN FillNa(ToNumeric(df.rows[i][c]), 0)
          ELSE df.rows[i][c] ] ] ]

\* drop_duplicates(subset=['Claim No']): the first row of each claim number.
RECURSIVE DropDupFrom(_, _)
DropDupFrom(rows, seen) ==
  IF rows = <<>> THEN <<>>
  ELSE IF Head(rows)["Claim No"] \in seen THEN DropDupFrom(Tail(rows), seen)
       ELSE <<Head(rows)>> \o DropDupFrom(Tail(rows), seen \cup {Head(rows)["Claim No"]})

\* drop_duplicates(keep='last'): the last row of each claim number.
RECURSIVE DropDupKeepLastFrom(_)
DropDupKeepLastFrom(rows) ==
  IF rows = <<>> THEN <<>>
  ELSE IF \E j \in DOMAIN Tail(rows) : Tail(rows)[j]["Claim No"] = Head(rows)["Claim No"]
       THEN DropDupKeepLastFrom(Tail(rows))
       ELSE <<Head(rows)>> \o DropDupKeepLastFrom(Tail(rows))

drop_duplicates_keep_last(rows) == DropDupKeepLastFrom(rows)

drop_duplicates(rows) == DropDupFrom(rows, {})

\* Primary Payer: fillna('Unknown'); Rendering Provider: fillna('').
NormalizeNames(df) ==
  [ df EXCEPT !.rows = [ i \in DOMAIN df.rows |->
      [ df.rows[i] EXCEPT !["Primary Payer"] = FillNaText(@, "Unknown"),
                          !["Rendering Provider"] = FillNaText(@, "") ] ] ]

\* The Balance column of the claims.
BalanceOf(r) ==
  IF "Total(Balance)" \in DOMAIN r
  THEN FillNa(ToNumeric(r["Total(Balance)"]), 0)
  ELSE Num(Val(r["Billed Charge"]) - Val(r["Total Payment"])
             - Val(r["Contractual Adjustment"]))

\* Balance, DOS_parsed and AgingDays of one claim.
ClaimRow(r, dcol, t) ==
  LET b == WithCol(r, "Balance", BalanceOf(r))
  IN  IF dcol # NoCol
      THEN WithCol(WithCol(b, "DOS_parsed", ToDatetime(r[dcol])),
                   "AgingDays", DaysBetween(t, ToDatetime(r[dcol])))
      ELSE WithCol(b, "AgingDays", NaN)

Parsed371(f) ==
  CoerceNumeric(try_parse_dates(try_parse_dates(f, <<"Start Date of Service", "DOS">>),
                                <<"Claim Date">>))

ClaimsOf(df, dcol, t) ==
  LET d == NormalizeNames([ df EXCEPT !.rows = drop_duplicates(@) ])
  IN  [ loaded |-> TRUE,
        cols |-> d.cols \cup {"Balance", "AgingDays"}
                   \cup (IF dcol # NoCol THEN {"DOS_parsed"} ELSE {}),
        rows |-> [ i \in DOMAIN d.rows |-> ClaimRow(d.rows[i], dcol, t) ] ]

\* ------------------------------------------------ 1) provider-level visits
RECURSIVE SumOver(_, _)
\* The sum of the function f over the set S of its arguments.
SumOver(S, f) ==
  IF S = {} THEN 0
  ELSE LET x == CHOOSE y \in S : TRUE IN f[x] + SumOver(S \ {x}, f)

RECURSIVE SortedTexts(_)
\* The texts of S in Python's string order (groupby sorts its keys).
SortedTexts(S) ==
  IF S = {} THEN <<>>
  ELSE LET x == CHOOSE y \in S : \A z \in S : StrRank(y) <= StrRank(z)
       IN  <<x>> \o SortedTexts(S \ {x})

\* The provider compared without str.strip().
ExcludedProviderNoStrip(r) == StrLower(r["Rendering Provider"]) = EXCLUDE_PROVIDER

ExcludedProvider(r) ==
  StrStrip(StrLower(r["Rendering Provider"])) = EXCLUDE_PROVIDER

OnOrAfterCutoff(c) == c[1] = "date" /\ c[2] >= DOS_CUTOFF

\* pv: the claims the cross-tab counts from, with their Month.
PvRows(cl) ==
  LET r1 == IF "Start Date of Service" \in cl.cols
            THEN SelectSeq(cl.rows,
                   LAMBDA r : OnOrAfterCutoff(ToDatetime(r["Start Date of Service"])))
            ELSE cl.rows
      r2 == SelectSeq(r1, LAMBDA r : ~ ExcludedProvider(r))
      r3 == drop_duplicates(r2)
  IN  [ i \in DOMAIN r3 |->
          WithCol(r3[i], "Month",
                  IF "Claim Date" \in cl.cols
                  THEN StrftimeYm(ToDatetime(r3[i]["Claim Date"]))
                  ELSE <<"Unknown", 0>>) ]

\* round(0) of num/den: numpy rounds an exact half to the even neighbour.
RoundHalfEven(num, den) ==
  LET q == num \div den
      r == num % den
  IN  IF 2 * r < den THEN q
      ELSE IF 2 * r > den THEN q + 1
      ELSE IF q % 2 = 0 THEN q ELSE q + 1

\* ((Grand Total / total_claims) * 100).round(0); 0/0 is NaN.
PctShare(x, total_claims) ==
  IF total_claims = 0 THEN NaN ELSE Num(RoundHalfEven(100 * x, total_claims))

\* pt: groupby(['Rendering Provider','Month'])['Claim No'].nunique().unstack(0),
\* with the Grand Total column; a missing Month is in no group.
PtRows(pv) ==
  LET g == SelectSeq(pv, LAMBDA r : r["Month"] # NaN)
      months == { g[i]["Month"] : i \in DOMAIN g }
      provs == SortedTexts({ g[i]["Rendering Provider"] : i \in DOMAIN g })
      Cell(p, m) == Cardinality({ g[i]["Claim No"] : i \in
                      { j \in DOMAIN g : g[j]["Rendering Provider"] = p
                                         /\ g[j]["Month"] = m } })
  IN  [ k \in DOMAIN provs |->
          LET cells == [ m \in months |-> Cell(provs[k], m) ]
          IN  [ label |-> provs[k], cells |-> cells,
                total |-> SumOver(months, cells) ] ]

MonthsOf(pv) == { pv[i]["Month"] : i \in DOMAIN pv } \ {NaN}

\* total_row taken before the Grand Total column is added to pt.
TotalRowBeforeGrandTotal(pt, months) ==
  [ label |-> GrandTotal,
    cells |-> [ m \in months |-> SumSeq([ k \in DOMAIN pt |-> pt[k].cells[m] ]) ],
    total |-> 0 ]

\* total_row: the column sums of pt, the Grand Total column included.
TotalRow(pt, months) ==
  [ label |-> GrandTotal,
    cells |-> [ m \in months |-> SumSeq([ k \in DOMAIN pt |-> pt[k].cells[m] ]) ],
    total |-> SumSeq([ k \in DOMAIN pt |-> pt[k].total ]) ]

NoCrossTab == [ made |-> FALSE, months |-> {}, rows |-> <<>> ]

\* pt_full with its % Share column.
PtFull(cl) ==
  LET pv == PvRows(cl)
      months == MonthsOf(pv)
      pt == PtRows(pv)
      full == Append(pt, TotalRow(pt, months))
      total_claims == full[Len(full)].total
  IN  [ made |-> TRUE, months |-> months,
        rows |-> [ k \in DOMAIN full |->
                     [ label |-> full[k].label, cells |-> full[k].cells,
                       total |-> full[k].total,
                       share |-> PctShare(full[k].total, total_claims) ] ] ]

\* ------------------------------------------- the minor-category folding
\* The rows of t at or above, and strictly below, the threshold thr10 / 10.
MajorRows(t, thr10) == SelectSeq(t, LAMBDA r : 10 * r.value >= thr10)

\* minor taken with <= instead of <.
MinorRowsInclusive(t, thr10) == SelectSeq(t, LAMBDA r : 10 * r.value <= thr10)

MinorRows(t, thr10) == SelectSeq(t, LAMBDA r : 10 * r.value < thr10)

\* major, with the 'Other minor payers' row when minor is not empty.
FoldMinor(t, thr10) ==
  LET minor == MinorRows(t, thr10)
  IN  IF minor # <<>>
      THEN Append(MajorRows(t, thr10),
                  [ label |-> OtherMinor,
                    value |-> SumSeq([ i \in DOMAIN minor |-> minor[i].value ]) ])
      ELSE MajorRows(t, thr10)

\* sort_values(ascending=False): quicksort, so rows of equal value come in
\* any order.
SortDescending(t) ==
  { p \in Perms(t) : \A i, j \in DOMAIN p : i < j => p[i].value >= p[j].value }

\* ------------------------------------------------------- 2) payer mix
\* pm_counts: the number of distinct claim numbers of each payer.
PmCounts(cl) ==
  LET payers == SortedTexts({ cl.rows[i]["Primary Payer"] : i \in DOMAIN cl.rows })
  IN  [ k \in DOMAIN payers |->
          [ label |-> payers[k],
            value |-> Cardinality({ cl.rows[i]["Claim No"] : i \in
                        { j \in DOMAIN cl.rows :
                            cl.rows[j]["Primary Payer"] = payers[k] } }) ] ]

\* Pct, in hundredths: (Claims / Claims.sum() * 100).round(2).
WithPct(t) ==
  LET total == SumSeq([ i \in DOMAIN t |-> t[i].value ])
  IN  [ i \in DOMAIN t |->
          [ label |-> t[i].label, value |-> t[i].value,
            Pct |-> RoundHalfEven(10000 * t[i].value, total) ] ]

\* ------------------------------------------------- 3) insurance AR aging
bins == << -1, 30, 60, 90, 120 >>

labels ==
  << "0 - 30 Days", "31 - 60 Days", "61 - 90 Days", "91 - 120 Days",
     "Above 120 Days" >>

\* pd.cut(..., right=False): the bin [lo, hi) that holds x.
CutBucketLeftClosed(x) ==
  IF x < bins[1] THEN NaText
  ELSE labels[ CHOOSE i \in DOMAIN bins :
                 /\ bins[i] <= x
                 /\ (i = Len(bins) \/ x < bins[i + 1]) ]

\* pd.cut(x, bins + [inf], labels): the bin (lo, hi] that holds x; none
\* when x is at or below the first edge.
CutBucket(x) ==
  IF x <= bins[1] THEN NaText
  ELSE labels[ CHOOSE i \in DOMAIN bins :
                 /\ bins[i] < x
                 /\ (i = Len(bins) \/ x <= bins[i + 1]) ]

IsSelfPay(r) == StrUpper(StrStrip(AsTypeStr(r["Primary Payer"]))) = "SELF PAY"

IsPAT(r) == StrContains(StrUpper(AsTypeStr(r["Claim Status Code"])), "PAT")

\* df.columns.str.strip(): the batch under its stripped column names.
StripCols(f) ==
  [ loaded |-> f.loaded,
    cols |-> { StrStrip(k) : k \in f.cols },
    rows |-> [ i \in DOMAIN f.rows |->
      [ c \in { StrStrip(k) : k \in DOMAIN f.rows[i] } |->
          f.rows[i][CHOOSE k \in DOMAIN f.rows[i] : StrStrip(k) = c] ] ] ]

\* The exception the AR aging module raises on the re-read 371.05 file, or
\* "none": pd.read_excel cannot read a csv upload (line 189); without the
\* service-date column to_datetime(None) is None and the subtraction of
\* line 199 fails; without the payer column line 202 fails; without one of
\* the three amount columns df.get(col, 0) is the number 0, which has no
\* fillna (lines 214-216).
AgingError(f, name) ==
  LET cols == StripCols(f).cols
  IN  CASE IsCsv(name) -> "ValueError"
        [] "Start Date of Service" \notin cols -> "TypeError"
        [] "Primary Payer" \notin cols -> "KeyError"
        [] ~ ({ "Billed Charge", "Fee Schedule Allowed Fee", "Total Payment" }
                \subseteq cols) -> "AttributeError"
        [] OTHER -> "none"

\* pd.to_numeric(df.get(col, 0), errors='coerce').fillna(0) of a column that
\* is there: the cell coerced to a number, NaN filled with 0.
NumericOr0(r, c) == FillNa(ToNumeric(r[c]), 0)

\* One row of df after line 222.
AgingRow(r, t) ==
  LET dos == ToDatetime(r["Start Date of Service"])
      days == DaysBetween(t, dos)
      allowed == NumericOr0(r, "Fee Schedule Allowed Fee")
      paid == NumericOr0(r, "Total Payment")
  IN  [ c \in (DOMAIN r) \cup { "AgingDays", "AgingBucket",
                                "Charges", "AllowedFee", "PaymentsCollected",
                                "ExpectedPayments", "Pending" } |->
          CASE c = "Start Date of Service" -> dos
            [] c = "AgingDays" -> days
            [] c = "AgingBucket" -> CutBucket(FillNa(days, SentinelAging)[2])
            [] c = "Charges" -> NumericOr0(r, "Billed Charge")
            [] c = "AllowedFee" -> allowed
            [] c = "PaymentsCollected" -> paid
            [] c = "ExpectedPayments" -> allowed
            [] c = "Pending" -> Num(allowed[2] - paid[2])
            [] OTHER -> r[c] ]

\* df: the freshly read 371.05 lines, column names stripped, without Self
\* Pay and PAT, bucketed.
AgingDf(f, t) ==
  LET g == StripCols(f)
      r1 == SelectSeq(g.rows, LAMBDA r : ~ IsSelfPay(r))
      r2 == IF "Claim Status Code" \in g.cols
            THEN SelectSeq(r1, LAMBDA r : ~ IsPAT(r)) ELSE r1
  IN  [ i \in DOMAIN r2 |-> AgingRow(r2[i], t) ]

SumCol(rows, c) == SumSeq([ i \in DOMAIN rows |-> Val(rows[i][c]) ])

\* aging_summary: one row per bucket label (the empty ones too).
AgingSummary(df) ==
  [ k \in DOMAIN labels |->
      LET g == SelectSeq(df, LAMBDA r : r["AgingBucket"] = labels[k])
      IN  [ AgingBucket |-> labels[k],
            Charges |-> SumCol(g, "Charges"),
            AllowedFee |-> SumCol(g, "AllowedFee"),
            ExpectedPayments |-> SumCol(g, "ExpectedPayments"),
            PaymentsCollected |-> SumCol(g, "PaymentsCollected"),
            Pending |-> SumCol(g, "Pending") ] ]

\* aging_summary_full: the summary and its Grand Total row.
AgingSummaryFull(s) ==
  Append(s,
    [ AgingBucket |-> GrandTotal,
      Charges |-> SumSeq([ i \in DOMAIN s |-> s[i].Charges ]),
      AllowedFee |-> SumSeq([ i \in DOMAIN s |-> s[i].AllowedFee ]),
      ExpectedPayments |-> SumSeq([ i \in DOMAIN s |-> s[i].ExpectedPayments ]),
      PaymentsCollected |-> SumSeq([ i \in DOMAIN s |-> s[i].PaymentsCollected ]),
      Pending |-> SumSeq([ i \in DOMAIN s |-> s[i].Pending ]) ])

\* -------------------------------------- 4) charges, payments, adjustments
\* df123 after lines 271-272: Date parsed again, Month added.
WithMonth(df, dcol) ==
  [ loaded |-> TRUE, cols |-> df.cols \cup {"Month"},
    rows |-> [ i \in DOMAIN df.rows |->
      [ c \in (DOMAIN df.rows[i]) \cup {"Month"} |->
          IF c = "Month" THEN PeriodStr(ToDatetime(df.rows[i][dcol]))
          ELSE IF c = dcol THEN ToDatetime(df.rows[i][c])
          ELSE df.rows[i][c] ] ] ]

\* The order of the Month texts: 'YYYY-MM' ascending, then 'NaT'.
MonthBefore(a, b) == (a[1] = "ym" /\ b[1] = "NaT") \/ (a[1] = b[1] /\ a[2] <= b[2])

RECURSIVE SortedMonths(_)
SortedMonths(S) ==
  IF S = {} THEN <<>>
  ELSE LET x == CHOOSE y \in S : \A z \in S : MonthBefore(y, z)
       IN  <<x>> \o SortedMonths(S \ {x})

\* pd.to_datetime(Month).dt.strftime('%b %Y'): 'NaT' gives a missing label.
FormatMonYear(m) == IF m[1] = "ym" THEN <<"bY", m[2]>> ELSE NaN

MonthlySummary(df) ==
  LET months == SortedMonths({ df.rows[i]["Month"] : i \in DOMAIN df.rows })
  IN  [ k \in DOMAIN months |->
          LET g == SelectSeq(df.rows, LAMBDA r : r["Month"] = months[k])
          IN  [ TRANSACTION_MONTH |-> FormatMonYear(months[k]),
                BILLED_CHARGES |-> SumCol(g, "Billed Charges"),
                PATIENT_PAYMENTS |-> SumCol(g, "Patient Payments"),
                PAYER_PAYMENTS |-> SumCol(g, "Payer Payments"),
                CONTRACTUAL_ADJUSTMENTS |-> SumCol(g, "Contractual Adjustments") ] ]

MonthlySummaryFull(s) ==
  Append(s,
    [ TRANSACTION_MONTH |-> <<GrandTotal, 0>>,
      BILLED_CHARGES |-> SumSeq([ i \in DOMAIN s |-> s[i].BILLED_CHARGES ]),
      PATIENT_PAYMENTS |-> SumSeq([ i \in DOMAIN s |-> s[i].PATIENT_PAYMENTS ]),
      PAYER_PAYMENTS |-> SumSeq([ i \in DOMAIN s |-> s[i].PAYER_PAYMENTS ]),
      CONTRACTUAL_ADJUSTMENTS |->
        SumSeq([ i \in DOMAIN s |-> s[i].CONTRACTUAL_ADJUSTMENTS ]) ])

\* ------------------------------------------------- 5) payments by payer
\* payments_by_payer: the Payer Payment sum of each payer over the line
\* items of the providers that are not excluded.
PaymentsByPayer(li) ==
  LET rows == SelectSeq(li.rows, LAMBDA r : ~ ExcludedProvider(r))
      payers == SortedTexts({ rows[i]["Primary Payer"] : i \in DOMAIN rows })
  IN  [ k \in DOMAIN payers |->
          [ label |-> payers[k],
            value |-> SumSeq([ i \in DOMAIN rows |->
                        IF rows[i]["Primary Payer"] = payers[k]
                        THEN FillNa(ToNumeric(rows[i]["Payer Payment"]), 0)[2]
                        ELSE 0 ]) ] ]

SortedAscending(v) ==
  CHOOSE p \in Perms(v) : \A i, j \in DOMAIN p : i < j => p[i] <= p[j]

\* Ten times quantile(0.10) with linear interpolation; the caller handles
\* the empty table, whose quantile is NaN.
Quantile10x10(t) ==
  LET v == SortedAscending([ i \in DOMAIN t |-> t[i].value ])
      lo == (Len(v) - 1) \div 10
      fr == (Len(v) - 1) % 10
  IN  IF fr = 0 THEN 10 * v[lo + 1]
      ELSE 10 * v[lo + 1] + fr * (v[lo + 2] - v[lo + 1])

\* Ten times minor_threshold_amount: 1.0 when the quantile is NaN or <= 0.
ThresholdAmount10(t) ==
  IF t = <<>> THEN 10
  ELSE IF Quantile10x10(t) <= 0 THEN 10 ELSE Quantile10x10(t)

\* ------------------------------------- unposted payments, ERA and denials
\* unposted: the 123.07 rows whose Posting Status contains 'unpost'.
Unposted(df) ==
  IF "Posting Status" \in df.cols
  THEN SelectSeq(df.rows, LAMBDA r :
         StrContains(StrLower(AsTypeStr(r["Posting Status"])), "unpost"))
  ELSE <<>>

needed_cols == { "Payer", "Method", "Dated", "Trace", "Amount" }

\* df_era[needed_cols] raises KeyError unless every needed column is there.
HasNeededCols(f) == needed_cols \subseteq f.cols

\* str(n) of the integer n, a digit.
IntText(n) == << "0", "1", "2", "3", "4", "5", "6", "7", "8", "9" >>[n + 1]

\* str(x) of the float x of integer value n, a digit.
FloatText(n) ==
  << "0.0", "1.0", "2.0", "3.0", "4.0", "5.0", "6.0", "7.0", "8.0", "9.0" >>[n + 1]

\* The texts that parse as an integer, and those that parse as a float only.
IsIntText(s) == \E n \in 0..9 : IntText(n) = s

IsFloatText(s) == \E n \in 0..9 : FloatText(n) = s

\* The number a numeric text names.
TextNumber(s) ==
  IF IsIntText(s) THEN CHOOSE n \in 0..9 : IntText(n) = s
  ELSE CHOOSE n \in 0..9 : FloatText(n) = s

\* A cell the reader's numeric inference can turn into a number: a number,
\* an empty cell, a text that parses as a number.
IsNumericCell(c) ==
  \/ c[1] \in { "int", "float", "nan" }
  \/ c[1] = "text" /\ (IsIntText(c[2]) \/ IsFloatText(c[2]))

\* A cell that makes a numeric column float64: empty, a float, a float text.
IsFloatCell(c) ==
  \/ c[1] \in { "float", "nan" }
  \/ c[1] = "text" /\ IsFloatText(c[2])

\* pd.read_excel on the column c of check numbers: when every cell is a
\* number, empty or a text that parses as a number, the column is numeric,
\* float64 when some cell is empty or a float and int64 otherwise; else the
\* column is left as it is (object).
ReadNumericColumn(f, c) ==
  LET numeric == \A i \in DOMAIN f.rows : IsNumericCell(f.rows[i][c])
      isfloat == \E i \in DOMAIN f.rows : IsFloatCell(f.rows[i][c])
      Conv(x) == IF x[1] = "nan" THEN NaN
                 ELSE << (IF isfloat THEN "float" ELSE "int"),
                         (IF x[1] = "text" THEN TextNumber(x[2]) ELSE x[2]) >>
  IN  IF c \in f.cols /\ numeric
      THEN [ f EXCEPT !.rows = [ i \in DOMAIN f.rows |->
               [ f.rows[i] EXCEPT ![c] = Conv(@) ] ] ]
      ELSE f

\* load_file: the report as read, its column of check numbers, the one
\* column of the model that holds numbers as text, through the inference.
load_file(file) == ReadNumericColumn(file, "Trace")

\* astype(str) of a check number: an integer n becomes the text of n ('7'),
\* a float the text of the float ('7.0'), an empty cell the text 'nan'; a
\* text stays as it is.
TraceStr(c) ==
  CASE c[1] = "int" -> <<"text", IntText(c[2])>>
    [] c[1] = "float" -> <<"text", FloatText(c[2])>>
    [] c[1] = "nan" -> <<"text", "nan">>
    [] OTHER -> c

\* dt.strftime('%Y-%m-%d'): NaT gives a missing value.
StrftimeIso(c) == IF c[1] = "date" THEN <<"dtext", YmdFrom(2024, 1, c[2])>> ELSE NaN

Empty == <<"empty", 0>>

\* One row of era after the renaming and the type fixes.
EraRow(r) ==
  ("PAYER" :> r["Payer"]) @@ ("METHOD" :> r["Method"])
    @@ ("DATE" :> StrftimeIso(ToDatetime(r["Dated"])))
    @@ ("CHECK/EFT #" :> TraceStr(r["Trace"]))
    @@ ("AMOUNT" :> FillNa(ToNumeric(r["Amount"]), 0))

\* era.sort_values('AMOUNT', ascending=False): equal amounts in any order.
EraSort(rows) ==
  { p \in Perms(rows) :
      \A i, j \in DOMAIN p : i < j => p[i]["AMOUNT"][2] >= p[j]["AMOUNT"][2] }

EraTotalRow(rows) ==
  ("PAYER" :> GrandTotal) @@ ("METHOD" :> "") @@ ("DATE" :> Empty)
    @@ ("CHECK/EFT #" :> Empty)
    @@ ("AMOUNT" :> Num(SumSeq([ i \in DOMAIN rows |-> rows[i]["AMOUNT"][2] ])))

\* The ledger sorted after the total row was appended.
EraFullSortedWithTotal(f) ==
  LET era == [ i \in DOMAIN f.rows |-> EraRow(f.rows[i]) ]
  IN  EraSort(Append(era, EraTotalRow(era)))

\* The ledgers era_full can be for the remittance batch f as loaded.
EraFull(f) ==
  LET era == [ i \in DOMAIN f.rows |-> EraRow(f.rows[i]) ]
  IN  { Append(p, EraTotalRow(p)) : p \in EraSort(era) }

\* A claim is denied when its status group name contains 'den'.
IsDenied(r) ==
  StrContains(StrLower(AsTypeStr(r["Claim Status Group Name"])), "den")

\* den_summary before its sort: Count and ARBalance of each status group.
DenSummary(cl) ==
  LET denials == SelectSeq(cl.rows, IsDenied)
      names == SortedTexts({ denials[i]["Claim Status Group Name"] :
                              i \in DOMAIN denials })
  IN  [ k \in DOMAIN names |->
          LET g == SelectSeq(denials,
                     LAMBDA r : r["Claim Status Group Name"] = names[k])
          IN  [ label |-> names[k],
                value |-> Cardinality({ g[i]["Claim No"] : i \in DOMAIN g }),
                ARBalance |-> SumCol(g, "Balance") ] ]

NoWorkbook ==
  [ made |-> FALSE, Provider_Visits |-> NoCrossTab, hasERA |-> FALSE,
    ERA |-> NoTable, raw_371_filtered |-> NoBatch, raw_123 |-> NoBatch ]

\* ------------------------------------------------------------ the uploads
\* The uploaded reports are drawn from families of batches.  Each family
\* varies the columns one KPI module reads and leaves the others at the
\* values of BaseLine, BaseTxn and BaseEra.
Cols371 ==
  { "Claim No", "Rendering Provider", "Primary Payer", "Start Date of Service",
    "Claim Date", "Claim Status Code", "Claim Status Group Name", "Billed Charge",
    "Fee Schedule Allowed Fee", "Total Payment", "Payer Payment", "Total(Balance)",
    "Contractual Adjustment" }

BaseLine(cn) ==
  ("Claim No" :> cn) @@ ("Rendering Provider" :> "Lee, Ann")
    @@ ("Primary Payer" :> "Aetna") @@ ("Start Date of Service" :> Date(400))
    @@ ("Claim Date" :> Date(410)) @@ ("Claim Status Code" :> "Bil")
    @@ ("Claim Status Group Name" :> "Billed") @@ ("Billed Charge" :> Num(3))
    @@ ("Fee Schedule Allowed Fee" :> Num(2)) @@ ("Total Payment" :> Num(1))
    @@ ("Payer Payment" :> Num(1)) @@ ("Total(Balance)" :> Num(2))
    @@ ("Contractual Adjustment" :> Num(0))

BaseTxn ==
  ("Date" :> Date(470)) @@ ("Billed Charges" :> Num(5))
    @@ ("Patient Payments" :> Num(1)) @@ ("Payer Payments" :> Num(2))
    @@ ("Contractual Adjustments" :> Num(1)) @@ ("Posting Status" :> "Posted")

BaseEra ==
  ("Payer" :> "Aetna") @@ ("Method" :> "EFT") @@ ("Dated" :> Date(480))
    @@ ("Trace" :> <<"int", 7>>) @@ ("Amount" :> Num(4))

\* The non-empty sequences of at most n elements of D.
SeqsUpTo(D, n) == UNION { [ 1..k -> D ] : k \in 1..n }

\* The batch of the rows, without the columns of drop.
BatchOf(rows, drop) ==
  Batch((DOMAIN rows[1]) \ drop,
        [ i \in DOMAIN rows |-> [ c \in (DOMAIN rows[i]) \ drop |-> rows[i][c] ] ])

Default371 == BatchOf(<< BaseLine(1) >>, {})
Default123 == BatchOf(<< BaseTxn >>, {})
DefaultEra == BatchOf(<< BaseEra >>, {})

Upload(f371, f123, fera, export) ==
  [ f371 |-> f371, name |-> "r371.xlsx", f123 |-> f123, fera |-> fera,
    export |-> export ]

\* Claim lines for the provider-visit module: provider, service date, claim date.
VisitProfiles ==
  { << "Lee, Ann", Date(400), Date(410) >>, << "Lee, Ann", Date(400), NaN >>,
    << "Lee, Ann", Date(300), Date(410) >>, << "Lee, Ann", Date(DOS_CUTOFF), Date(410) >>,
    << "Lee, Ann", Bad, Date(410) >>, << "Roy, Bo", Date(400), Date(450) >>,
    << " Salah, Ahmad ", Date(400), Date(410) >> }

VisitLines ==
  { ("Rendering Provider" :> v[1]) @@ ("Start Date of Service" :> v[2])
      @@ ("Claim Date" :> v[3]) @@ BaseLine(cn) :
      cn \in 1..2, v \in VisitProfiles }

VisitUploads ==
  { Upload(BatchOf(rows, drop), Default123, DefaultEra, TRUE) :
      rows \in SeqsUpTo(VisitLines, MaxLines),
      drop \in SUBSET { "Start Date of Service", "Claim Date" } }

\* n claims, the first a of them of one provider and the rest of another.
ShareUploads ==
  { Upload(BatchOf([ i \in 1..n |->
                      ("Rendering Provider" :> (IF i <= a THEN "Lee, Ann" ELSE "Roy, Bo"))
                        @@ BaseLine(i) ], {}),
           Default123, DefaultEra, TRUE) :
      n \in 1..MaxShareClaims, a \in 0..MaxShareClaims }

\* a claims of one payer, b of a second, c of no payer at all.
PayerCounts ==
  { t \in ({0} \cup ((minor_threshold - 1)..MaxPayerClaims))
            \X {0, 1, minor_threshold - 1, minor_threshold} \X (0..2) :
      t[1] + t[2] + t[3] > 0 }

PayerUploads ==
  { Upload(BatchOf([ i \in 1..(t[1] + t[2] + t[3]) |->
                      ("Primary Payer" :> (IF i <= t[1] THEN "Aetna"
                                           ELSE IF i <= t[1] + t[2] THEN "Cigna"
                                           ELSE NaText))
                        @@ BaseLine(i) ], {}),
           Default123, DefaultEra, TRUE) :
      t \in PayerCounts }

\* One claim line of every age from -1 day to MaxAgingDays days.
AgeUploads ==
  { Upload(BatchOf(<< ("Start Date of Service" :> d) @@ BaseLine(1) >>, {}),
           Default123, DefaultEra, TRUE) :
      d \in { Date(TodayDay - k) : k \in (-1)..MaxAgingDays } \cup { NaN, Bad } }

\* Claim lines for the AR aging sums: payer, status code, service date,
\* allowed fee, total payment.
AgingProfiles ==
  { << "Aetna", "Bil", Date(TodayDay - 30), Num(2), Num(1) >>,
    << "Aetna", "Bil", Date(TodayDay - 31), Num(4), Bad >>,
    << "Cigna", "Bil", Bad, Bad, Num(3) >>,
    << " self pay", "Bil", Date(TodayDay - 30), Num(2), Num(1) >>,
    << "Aetna", "pat", Date(TodayDay - 30), Num(2), Num(1) >>,
    << NaText, "Bil", Date(TodayDay + 1), Num(2), Num(1) >> }

AgingLines ==
  { ("Primary Payer" :> v[1]) @@ ("Claim Status Code" :> v[2])
      @@ ("Start Date of Service" :> v[3]) @@ ("Fee Schedule Allowed Fee" :> v[4])
      @@ ("Total Payment" :> v[5]) @@ BaseLine(1) :
      v \in AgingProfiles }

AgingUploads ==
  { Upload(BatchOf([ i \in DOMAIN rows |-> ("Claim No" :> i) @@ rows[i] ], drop),
           Default123, DefaultEra, TRUE) :
      rows \in SeqsUpTo(AgingLines, MaxLines),
      drop \in { {}, { "Claim Status Code" } } }

\* Line items for the payments by payer: provider, payer, payer payment.
PaymentProfiles ==
  { << "Lee, Ann", "Aetna", Bad >>, << "Lee, Ann", "Aetna", Num(5) >>,
    << "Lee, Ann", "Cigna", Num(1) >>, << "Lee, Ann", "Medicare", Num(5) >>,
    << "Lee, Ann", NaText, Num(-2) >>, << " Salah, Ahmad ", "Aetna", Num(5) >> }

PaymentLines ==
  { ("Rendering Provider" :> v[1]) @@ ("Primary Payer" :> v[2])
      @@ ("Payer Payment" :> v[3]) @@ BaseLine(1) :
      v \in PaymentProfiles }

PaymentUploads ==
  { Upload(BatchOf([ i \in DOMAIN rows |-> ("Claim No" :> i) @@ rows[i] ], {}),
           Default123, DefaultEra, TRUE) :
      rows \in SeqsUpTo(PaymentLines, MaxPayLines) }

\* Claims for the denials summary: claim number, status group, balance.
DenialLines ==
  { ("Claim Status Group Name" :> g) @@ BaseLine(cn) :
      cn \in 1..2, g \in { "Billed", "Denied", "DENIAL-AUTH" } }
    \cup { ("Claim Status Group Name" :> "Denied") @@ ("Total(Balance)" :> Bad)
             @@ BaseLine(cn) : cn \in 1..2 }

DenialUploads ==
  { Upload(BatchOf(rows, drop), Default123, DefaultEra, TRUE) :
      rows \in SeqsUpTo(DenialLines, MaxLines),
      drop \in { {}, { "Total(Balance)" } } }

\* Daily transactions: date, billed charges, posting status.
TxnLines ==
  { ("Date" :> d) @@ ("Billed Charges" :> b) @@ BaseTxn :
      d \in { Bad, Date(470), Date(490) }, b \in { Num(1), NaN } }
    \cup { ("Posting Status" :> "UNPOSTED") @@ BaseTxn }

TxnUploads ==
  { Upload(Default371, BatchOf(rows, drop), DefaultEra, TRUE) :
      rows \in SeqsUpTo(TxnLines, MaxTxns),
      drop \in { {}, { "Date" }, { "Posting Status" } } }

\* Remittance rows: date (a date cell, a text, a text naming no day, no
\* date), trace number (a number, a text, empty), amount.
EraProfiles ==
  { << Date(480), <<"int", 7>>, Num(1) >>, << Date(480), <<"int", 7>>, Num(2) >>,
    << Bad, <<"text", "7">>, Num(2) >>, << Bad, <<"text", "A7">>, Num(1) >>,
    << <<"dtext", 20250426>>, NaN, Num(1) >>,
    << Date(481), NaN, Bad >>, << <<"dtext", 20250230>>, <<"int", 7>>, Num(2) >>,
    << Date(425), <<"text", "7.0">>, Num(0) >> }

EraLines ==
  { ("Dated" :> v[1]) @@ ("Trace" :> v[2]) @@ ("Amount" :> v[3]) @@ BaseEra :
      v \in EraProfiles }

EraUploads ==
  { Upload(Default371, Default123, BatchOf(rows, {}), export) :
      rows \in SeqsUpTo(EraLines, MaxEra), export \in BOOLEAN }
    \cup { Upload(Default371, Default123, BatchOf(<< BaseEra >>, {c}), export) :
             c \in needed_cols, export \in BOOLEAN }
    \cup { Upload(Default371, Default123, NoBatch, export) : export \in BOOLEAN }

\* The row r with its column old named new.
Renamed(r, old, new) ==
  [ c \in ((DOMAIN r) \ {old}) \cup {new} |-> IF c = new THEN r[old] ELSE r[c] ]

\* 371.05 reports with a padded column name or without a column the AR
\* aging module reads.
ColumnUploads ==
  { Upload(BatchOf(<< Renamed(line, "Total Payment", "Total Payment ") >>, {}),
           Default123, DefaultEra, TRUE) : line \in AgingLines }
    \cup { Upload(BatchOf(<< line >>, {c}), Default123, DefaultEra, TRUE) :
             line \in AgingLines,
             c \in { "Billed Charge", "Fee Schedule Allowed Fee", "Total Payment" } }

\* 371.05 reports uploaded as csv files.
CsvUploads ==
  { [ Upload(BatchOf(<< line >>, {}), Default123, DefaultEra, TRUE)
        EXCEPT !.name = n ] :
      line \in AgingLines, n \in { "r371.csv", "R371.CSV" } }

\* A required report is not uploaded.
MissingUploads ==
  { Upload(NoBatch, Default123, DefaultEra, TRUE),
    Upload(Default371, NoBatch, DefaultEra, TRUE),
    Upload(NoBatch, NoBatch, NoBatch, TRUE) }

Uploads ==
  VisitUploads \cup ShareUploads \cup PayerUploads \cup AgeUploads
    \cup AgingUploads \cup PaymentUploads \cup DenialUploads \cup TxnUploads
    \cup EraUploads \cup ColumnUploads \cup CsvUploads \cup MissingUploads

\* ----------------------------------------------------------------- the run
Init ==
  /\ \E u \in Uploads :
       /\ file_371 = u.f371
       /\ name_371 = u.name
       /\ file_123 = u.f123
       /\ file_era = u.fera
       /\ enable_export = u.export
  /\ today = TodayDay
  /\ pc = "load"
  /\ error = "none"
  /\ df371 = NoBatch /\ df123 = NoBatch /\ line_items = NoBatch /\ claims = NoBatch
  /\ dos_col = NoCol /\ date123_col = NoCol
  /\ pt_full = NoCrossTab
  /\ pm_counts = NoTable /\ major = NoTable
  /\ aging_df = NoTable /\ aging_summary_full = NoTable
  /\ monthly_summary_full = NoTable
  /\ payments_by_payer = NoTable /\ minor_threshold_amount = 0
  /\ payments_by_payer_final = NoTable
  /\ unposted = NoTable /\ era_full = NoTable /\ den_summary = NoTable
  /\ workbook = NoWorkbook

\* Lines 82-83: the uploaded reports are read.
LoadFiles ==
  /\ pc = "load"
  /\ df371' = load_file(file_371)
  /\ df123' = load_file(file_123)
  /\ pc' = "check"
  /\ UNCHANGED << inputs, error, line_items, claims, dos_col, date123_col, pt_full,
                  pm_counts, major, aging_df, aging_summary_full,
                  monthly_summary_full, payments_by_payer, minor_threshold_amount,
                  payments_by_payer_final, unposted, era_full, den_summary, workbook >>

\* Lines 85-87: st.stop() unless both required reports are there.
Stop ==
  /\ pc = "check"
  /\ ~ (df371.loaded /\ df123.loaded)
  /\ pc' = "stopped"
  /\ UNCHANGED << inputs, error, df371, df123, line_items, claims, dos_col,
                  date123_col, pt_full, pm_counts, major, aging_df,
                  aging_summary_full, monthly_summary_full, payments_by_payer,
                  minor_threshold_amount, payments_by_payer_final, unposted,
                  era_full, den_summary, workbook >>

\* Lines 92-127: dates parsed and numbers coerced in place, the working
\* copies made, the claims deduplicated and given Balance and AgingDays.
Preprocess ==
  /\ pc = "check"
  /\ df371.loaded /\ df123.loaded
  /\ df371' = Parsed371(df371)
  /\ dos_col' = FirstPresent(df371.cols, << "Start Date of Service", "DOS" >>)
  /\ date123_col' = FirstPresent(df123.cols, << "Date" >>)
  /\ df123' = try_parse_dates(df123, << "Date" >>)
  /\ line_items' = NormalizeNames(df371')
  /\ claims' = ClaimsOf(df371', dos_col', today)
  /\ pc' = "visits"
  /\ UNCHANGED << inputs, error, pt_full, pm_counts, major, aging_df,
                  aging_summary_full, monthly_summary_full, payments_by_payer,
                  minor_threshold_amount, payments_by_payer_final, unposted,
                  era_full, den_summary, workbook >>

\* Lines 135-157: the provider-visit cross-tab.
ProviderVisits ==
  /\ pc = "visits"
  /\ pt_full' = PtFull(claims)
  /\ pc' = "payermix"
  /\ UNCHANGED << inputs, error, df371, df123, line_items, claims, dos_col,
                  date123_col, pm_counts, major, aging_df, aging_summary_full,
                  monthly_summary_full, payments_by_payer, minor_threshold_amount,
                  payments_by_payer_final, unposted, era_full, den_summary, workbook >>

\* Lines 169-180: the payer mix, minor payers folded, sorted, with Pct.
PayerMix ==
  /\ pc = "payermix"
  /\ pm_counts' = Table(PmCounts(claims))
  /\ \E sorted \in SortDescending(FoldMinor(PmCounts(claims), 10 * minor_threshold)) :
       major' = Table(WithPct(sorted))
  /\ pc' = "aging"
  /\ UNCHANGED << inputs, error, df371, df123, line_items, claims, dos_col,
                  date123_col, pt_full, aging_df, aging_summary_full,
                  monthly_summary_full, payments_by_payer, minor_threshold_amount,
                  payments_by_payer_final, unposted, era_full, den_summary, workbook >>

\* Lines 188-222 when the 371.05 file read again is no Excel file or lacks
\* a column the module reads: the exception ends the script run.
ARAgingFails ==
  /\ pc = "aging"
  /\ AgingError(file_371, name_371) # "none"
  /\ error' = AgingError(file_371, name_371)
  /\ pc' = "failed"
  /\ UNCHANGED << inputs, df371, df123, line_items, claims, dos_col, date123_col,
                  pt_full, pm_counts, major, aging_df, aging_summary_full,
                  monthly_summary_full, payments_by_payer, minor_threshold_amount,
                  payments_by_payer_final, unposted, era_full, den_summary,
                  workbook >>

\* Lines 188-247: the AR aging summary, from the 371.05 file read again.
ARAging ==
  /\ pc = "aging"
  /\ AgingError(file_371, name_371) = "none"
  /\ aging_df' = Table(AgingDf(file_371, today))
  /\ aging_summary_full' = Table(AgingSummaryFull(AgingSummary(AgingDf(file_371, today))))
  /\ pc' = "monthly"
  /\ UNCHANGED << inputs, error, df371, df123, line_items, claims, dos_col,
                  date123_col, pt_full, pm_counts, major, monthly_summary_full,
                  payments_by_payer, minor_threshold_amount,
                  payments_by_payer_final, unposted, era_full, den_summary, workbook >>

\* Lines 268-269: without a transaction date there is only a warning.
MonthlyNoDate ==
  /\ pc = "monthly"
  /\ date123_col = NoCol
  /\ pc' = "payments"
  /\ UNCHANGED << inputs, error, df371, df123, line_items, claims, dos_col,
                  date123_col, pt_full, pm_counts, major, aging_df,
                  aging_summary_full, monthly_summary_full, payments_by_payer,
                  minor_threshold_amount, payments_by_payer_final, unposted,
                  era_full, den_summary, workbook >>

\* Lines 270-296: df123 gets its Month column; the monthly summary.
MonthlyTable ==
  /\ pc = "monthly"
  /\ date123_col # NoCol
  /\ df123' = WithMonth(df123, date123_col)
  /\ monthly_summary_full' = Table(MonthlySummaryFull(MonthlySummary(df123')))
  /\ pc' = "payments"
  /\ UNCHANGED << inputs, error, df371, line_items, claims, dos_col, date123_col,
                  pt_full, pm_counts, major, aging_df, aging_summary_full,
                  payments_by_payer, minor_threshold_amount,
                  payments_by_payer_final, unposted, era_full, den_summary, workbook >>

\* Lines 308-324: the payments by payer, minor payers folded, sorted.
PaymentsByPayerModule ==
  /\ pc = "payments"
  /\ payments_by_payer' = Table(PaymentsByPayer(line_items))
  /\ minor_threshold_amount' = ThresholdAmount10(PaymentsByPayer(line_items))
  /\ \E sorted \in SortDescending(FoldMinor(PaymentsByPayer(line_items),
                                            minor_threshold_amount')) :
       payments_by_payer_final' = Table(sorted)
  /\ pc' = "era"
  /\ UNCHANGED << inputs, error, df371, df123, line_items, claims, dos_col,
                  date123_col, pt_full, pm_counts, major, aging_df,
                  aging_summary_full, monthly_summary_full, unposted, era_full,
                  den_summary, workbook >>

\* Lines 336-344 without an ERA upload: df_era was never assigned, and
\* df_era[needed_cols] raises NameError; the script run ends there.
EraNameError ==
  /\ pc = "era"
  /\ ~ file_era.loaded
  /\ unposted' = Table(Unposted(df123))
  /\ error' = "NameError"
  /\ pc' = "failed"
  /\ UNCHANGED << inputs, df371, df123, line_items, claims, dos_col, date123_col,
                  pt_full, pm_counts, major, aging_df, aging_summary_full,
                  monthly_summary_full, payments_by_payer, minor_threshold_amount,
                  payments_by_payer_final, era_full, den_summary, workbook >>

\* Lines 336-344 with an ERA upload that lacks a needed column:
\* df_era[needed_cols] raises KeyError; the script run ends there.
EraKeyError ==
  /\ pc = "era"
  /\ file_era.loaded
  /\ ~ HasNeededCols(file_era)
  /\ unposted' = Table(Unposted(df123))
  /\ error' = "KeyError"
  /\ pc' = "failed"
  /\ UNCHANGED << inputs, df371, df123, line_items, claims, dos_col, date123_col,
                  pt_full, pm_counts, major, aging_df, aging_summary_full,
                  monthly_summary_full, payments_by_payer, minor_threshold_amount,
                  payments_by_payer_final, era_full, den_summary, workbook >>

\* Lines 336-371: the unposted rows and the ERA ledger.
EraLedger ==
  /\ pc = "era"
  /\ file_era.loaded
  /\ HasNeededCols(file_era)
  /\ unposted' = Table(Unposted(df123))
  /\ \E ledger \in EraFull(load_file(file_era)) : era_full' = Table(ledger)
  /\ pc' = "denials"
  /\ UNCHANGED << inputs, error, df371, df123, line_items, claims, dos_col,
                  date123_col, pt_full, pm_counts, major, aging_df,
                  aging_summary_full, monthly_summary_full, payments_by_payer,
                  minor_threshold_amount, payments_by_payer_final, den_summary,
                  workbook >>

\* Lines 374-384: the denials summary, made only when a claim is denied.
Denials ==
  /\ pc = "denials"
  /\ IF DenSummary(claims) # <<>>
     THEN \E sorted \in SortDescending(DenSummary(claims)) :
            den_summary' = Table(sorted)
     ELSE den_summary' = den_summary
  /\ pc' = "export"
  /\ UNCHANGED << inputs, error, df371, df123, line_items, claims, dos_col,
                  date123_col, pt_full, pm_counts, major, aging_df,
                  aging_summary_full, monthly_summary_full, payments_by_payer,
                  minor_threshold_amount, payments_by_payer_final, unposted,
                  era_full, workbook >>

\* Lines 387-396: the KPI workbook.
Export ==
  /\ pc = "export"
  /\ enable_export
  /\ workbook' = [ made |-> TRUE, Provider_Visits |-> pt_full,
                   hasERA |-> file_era.loaded,
                   ERA |-> IF file_era.loaded THEN era_full ELSE NoTable,
                   raw_371_filtered |-> line_items, raw_123 |-> df123 ]
  /\ pc' = "done"
  /\ UNCHANGED << inputs, error, df371, df123, line_items, claims, dos_col,
                  date123_col, pt_full, pm_counts, major, aging_df,
                  aging_summary_full, monthly_summary_full, payments_by_payer,
                  minor_threshold_amount, payments_by_payer_final, unposted,
                  era_full, den_summary >>

\* Line 387 with the export switched off.
NoExport ==
  /\ pc = "export"
  /\ ~ enable_export
  /\ pc' = "done"
  /\ UNCHANGED << inputs, error, df371, df123, line_items, claims, dos_col,
                  date123_col, pt_full, pm_counts, major, aging_df,
                  aging_summary_full, monthly_summary_full, payments_by_payer,
                  minor_threshold_amount, payments_by_payer_final, unposted,
                  era_full, den_summary, workbook >>

Next ==
  \/ LoadFiles
  \/ Stop
  \/ Preprocess
  \/ ProviderVisits
  \/ PayerMix
  \/ ARAgingFails
  \/ ARAging
  \/ MonthlyNoDate
  \/ MonthlyTable
  \/ PaymentsByPayerModule
  \/ EraNameError
  \/ EraKeyError
  \/ EraLedger
  \/ Denials
  \/ Export
  \/ NoExport

Spec == Init /\ [][Next]_vars

\* ================================================================ claims

\* ------------------------------------------------------------------- C1
ClaimNos(rows) == { rows[i]["Claim No"] : i \in DOMAIN rows }

\* The index of the first line of claim number cn.
FirstLine(rows, cn) ==
  CHOOSE i \in DOMAIN rows :
    /\ rows[i]["Claim No"] = cn
    /\ \A j \in DOMAIN rows : rows[j]["Claim No"] = cn => i <= j

\* C1: the deduplicated claims hold exactly one row per distinct claim number
\* of the line items, no more rows than the line items, and the row kept for
\* a claim number is the first line item with that number, in input order.
C1_DedupKeepsFirstLine ==
  claims.loaded =>
    /\ ClaimNos(claims.rows) = ClaimNos(line_items.rows)
    /\ \A i, j \in DOMAIN claims.rows :
         i # j => claims.rows[i]["Claim No"] # claims.rows[j]["Claim No"]
    /\ Len(claims.rows) <= Len(line_items.rows)
    /\ \A i \in DOMAIN claims.rows :
         LET k == FirstLine(line_items.rows, claims.rows[i]["Claim No"])
         IN  /\ \A c \in line_items.cols : claims.rows[i][c] = line_items.rows[k][c]
             /\ \A j \in DOMAIN claims.rows :
                  i < j => k < FirstLine(line_items.rows, claims.rows[j]["Claim No"])

\* Two different lines of one claim number.
C1_Witness ==
  /\ claims.loaded
  /\ Len(claims.rows) < Len(line_items.rows)
  /\ \E i, j \in DOMAIN line_items.rows :
       /\ i < j
       /\ line_items.rows[i]["Claim No"] = line_items.rows[j]["Claim No"]
       /\ line_items.rows[i] # line_items.rows[j]

\* ------------------------------------------------------------------- C2
\* The bucket the claim gives to an age of d days.
BucketOfDays(d) ==
  IF d <= 30 THEN "0 - 30 Days"
  ELSE IF d <= 60 THEN "31 - 60 Days"
  ELSE IF d <= 90 THEN "61 - 90 Days"
  ELSE IF d <= 120 THEN "91 - 120 Days"
  ELSE "Above 120 Days"

\* C2: every AR aging row with a non-negative or a missing AgingDays has
\* exactly the bucket of its range (30, 60, 90 and 120 in the lower bucket,
\* a missing age in "Above 120 Days"), and the rows without an age are summed
\* in the "Above 120 Days" row of the summary, not dropped.
C2_AgingBucketTotal ==
  aging_summary_full.made =>
    /\ \A i \in DOMAIN aging_df.rows :
         LET r == aging_df.rows[i]
         IN  /\ r["AgingDays"][1] = "nan" => r["AgingBucket"] = "Above 120 Days"
             /\ (r["AgingDays"][1] = "num" /\ r["AgingDays"][2] >= 0) =>
                  r["AgingBucket"] = BucketOfDays(r["AgingDays"][2])
    /\ LET old == SelectSeq(aging_df.rows, LAMBDA r :
                    r["AgingDays"][1] = "nan" \/ r["AgingDays"][2] > 120)
       IN  /\ aging_summary_full.rows[5].AgingBucket = "Above 120 Days"
           /\ aging_summary_full.rows[5].Charges = SumCol(old, "Charges")
           /\ aging_summary_full.rows[5].Pending = SumCol(old, "Pending")

\* A line of exactly 30 days and a line without a service date.
C2_Witness ==
  /\ aging_summary_full.made
  /\ \E i, j \in DOMAIN aging_df.rows :
       /\ aging_df.rows[i]["AgingDays"] = Num(30)
       /\ aging_df.rows[i]["AgingBucket"] = "0 - 30 Days"
       /\ aging_df.rows[j]["AgingDays"] = NaN
       /\ aging_df.rows[j]["AgingBucket"] = "Above 120 Days"
  /\ aging_summary_full.rows[5].Charges > 0

\* ------------------------------------------------------------------- C3
\* The indices of the rows of a table that carry the Grand Total label.
TotalsOfCrossTab == { i \in DOMAIN pt_full.rows : pt_full.rows[i].label = GrandTotal }

TotalsOfAging ==
  { i \in DOMAIN aging_summary_full.rows :
      aging_summary_full.rows[i].AgingBucket = GrandTotal }

TotalsOfMonthly ==
  { i \in DOMAIN monthly_summary_full.rows :
      monthly_summary_full.rows[i].TRANSACTION_MONTH = <<GrandTotal, 0>> }

TotalsOfEra == { i \in DOMAIN era_full.rows : era_full.rows[i]["PAYER"] = GrandTotal }

\* C3: each table with a Grand Total row has exactly one, and its value in
\* every summed column is the sum of that column over the other rows; in the
\* cross-tab the Grand Total column of every row is the sum of its month cells.
C3_GrandTotalRows ==
  /\ pt_full.made =>
       /\ Cardinality(TotalsOfCrossTab) = 1
       /\ \A t \in TotalsOfCrossTab :
            LET data == (DOMAIN pt_full.rows) \ {t}
            IN  /\ \A m \in pt_full.months :
                     pt_full.rows[t].cells[m] =
                       SumOver(data, [ i \in data |-> pt_full.rows[i].cells[m] ])
                /\ pt_full.rows[t].total =
                     SumOver(data, [ i \in data |-> pt_full.rows[i].total ])
       /\ \A i \in DOMAIN pt_full.rows :
            pt_full.rows[i].total = SumOver(pt_full.months, pt_full.rows[i].cells)
  /\ aging_summary_full.made =>
       /\ Cardinality(TotalsOfAging) = 1
       /\ \A t \in TotalsOfAging :
            LET data == (DOMAIN aging_summary_full.rows) \ {t}
                rows == aging_summary_full.rows
            IN  /\ rows[t].Charges = SumOver(data, [ i \in data |-> rows[i].Charges ])
                /\ rows[t].AllowedFee = SumOver(data, [ i \in data |-> rows[i].AllowedFee ])
                /\ rows[t].ExpectedPayments =
                     SumOver(data, [ i \in data |-> rows[i].ExpectedPayments ])
                /\ rows[t].PaymentsCollected =
                     SumOver(data, [ i \in data |-> rows[i].PaymentsCollected ])
                /\ rows[t].Pending = SumOver(data, [ i \in data |-> rows[i].Pending ])
  /\ monthly_summary_full.made =>
       /\ Cardinality(TotalsOfMonthly) = 1
       /\ \A t \in TotalsOfMonthly :
            LET data == (DOMAIN monthly_summary_full.rows) \ {t}
                rows == monthly_summary_full.rows
            IN  /\ rows[t].BILLED_CHARGES =
                     SumOver(data, [ i \in data |-> rows[i].BILLED_CHARGES ])
                /\ rows[t].PATIENT_PAYMENTS =
                     SumOver(data, [ i \in data |-> rows[i].PATIENT_PAYMENTS ])
                /\ rows[t].PAYER_PAYMENTS =
                     SumOver(data, [ i \in data |-> rows[i].PAYER_PAYMENTS ])
                /\ rows[t].CONTRACTUAL_ADJUSTMENTS =
                     SumOver(data, [ i \in data |-> rows[i].CONTRACTUAL_ADJUSTMENTS ])
  /\ era_full.made =>
       /\ Cardinality(TotalsOfEra) = 1
       /\ \A t \in TotalsOfEra :
            LET data == (DOMAIN era_full.rows) \ {t}
            IN  era_full.rows[t]["AMOUNT"] =
                  Num(SumOver(data, [ i \in data |-> era_full.rows[i]["AMOUNT"][2] ]))

\* All four tables are made, the cross-tab with two providers and two months
\* and a non-zero count in both providers' rows.
C3_Witness ==
  /\ pt_full.made /\ aging_summary_full.made
  /\ monthly_summary_full.made /\ era_full.made
  /\ Len(pt_full.rows) = 3
  /\ Cardinality(pt_full.months) = 2
  /\ pt_full.rows[1].total > 0 /\ pt_full.rows[2].total > 0
  /\ pt_full.rows[3].total = 2

\* ------------------------------------------------------------------- C4
\* after is before with exactly the rows below thr10 / 10 replaced by one
\* 'Other minor payers' row of their sum, sorted descending by value.
FoldedRight(before, after, thr10) ==
  LET minors == { i \in DOMAIN before : 10 * before[i].value < thr10 }
      others == { i \in DOMAIN after : after[i].label = OtherMinor }
  IN  /\ { << after[i].label, after[i].value >> : i \in (DOMAIN after) \ others }
           = { << before[i].label, before[i].value >> : i \in (DOMAIN before) \ minors }
      /\ Len(after) = Cardinality((DOMAIN before) \ minors) + Cardinality(others)
      /\ minors = {} => others = {}
      /\ minors # {} =>
           /\ Cardinality(others) = 1
           /\ \A o \in others :
                after[o].value = SumOver(minors, [ i \in minors |-> before[i].value ])
      /\ \A i, j \in DOMAIN after : i < j => after[i].value >= after[j].value

\* C4: in the payer mix (threshold 10 claims) and in the payments by payer
\* (threshold minor_threshold_amount) exactly the categories strictly below the
\* threshold are replaced by one 'Other minor payers' row holding their sum,
\* there is no such row when no category is below it, and the table, that row
\* included, is sorted descending.
C4_MinorFolding ==
  /\ major.made => FoldedRight(pm_counts.rows, major.rows, 10 * 10)
  /\ payments_by_payer_final.made =>
       FoldedRight(payments_by_payer.rows, payments_by_payer_final.rows,
                   minor_threshold_amount)

\* A payer of exactly 10 claims stays, two smaller ones are folded into an
\* 'Other minor payers' row of 11 that sorts first; the payments fold as well.
C4_Witness ==
  /\ payments_by_payer_final.made
  /\ Len(pm_counts.rows) = 3
  /\ Len(major.rows) = 2
  /\ major.rows[1].label = OtherMinor /\ major.rows[1].value = 11
  /\ major.rows[2].value = 10
  /\ \E i \in DOMAIN payments_by_payer_final.rows :
       payments_by_payer_final.rows[i].label = OtherMinor

\* ------------------------------------------------------------------ C10
\* The three conditions of the claim on one deduplicated claim.
Qualifies(r) ==
  /\ "Start Date of Service" \in claims.cols =>
       /\ r["Start Date of Service"][1] = "date"
       /\ r["Start Date of Service"][2] >= DOS_CUTOFF
  /\ StrStrip(StrLower(r["Rendering Provider"])) # EXCLUDE_PROVIDER
  /\ "Claim Date" \in claims.cols => r["Claim Date"][1] = "date"

MonthOfClaim(r) ==
  IF "Claim Date" \in claims.cols
  THEN << "ym", YearMonthFrom(2024, 1, r["Claim Date"][2]) >>
  ELSE << "Unknown", 0 >>

\* C10: a deduplicated claim is counted in the cross-tab, in the cell of its
\* provider and claim month, exactly when its service date is parseable and
\* not before the cutoff (column present), its provider is not the excluded
\* one, and its claim date is parseable (column present); the overall Grand
\* Total is the number of those claims, and without a claim-date column they
\* are all counted under 'Unknown'.
C10_CountedClaims ==
  pt_full.made =>
    LET Q == { i \in DOMAIN claims.rows : Qualifies(claims.rows[i]) }
        data == (DOMAIN pt_full.rows) \ TotalsOfCrossTab
    IN  /\ \A t \in TotalsOfCrossTab : pt_full.rows[t].total = Cardinality(Q)
        /\ \A i \in Q :
             /\ MonthOfClaim(claims.rows[i]) \in pt_full.months
             /\ \E k \in data :
                  pt_full.rows[k].label = claims.rows[i]["Rendering Provider"]
        /\ \A k \in data :
             /\ \E i \in Q : pt_full.rows[k].label = claims.rows[i]["Rendering Provider"]
             /\ \A m \in pt_full.months :
                  pt_full.rows[k].cells[m] =
                    Cardinality({ i \in Q :
                      /\ claims.rows[i]["Rendering Provider"] = pt_full.rows[k].label
                      /\ MonthOfClaim(claims.rows[i]) = m })
        /\ "Claim Date" \notin claims.cols => pt_full.months \subseteq { << "Unknown", 0 >> }

\* One claim is counted and another one is not.
C10_Witness ==
  /\ pt_full.made
  /\ Len(claims.rows) = 2
  /\ \E t \in TotalsOfCrossTab : pt_full.rows[t].total = 1
  /\ \E i \in DOMAIN claims.rows :
       /\ StrStrip(StrLower(claims.rows[i]["Rendering Provider"])) = EXCLUDE_PROVIDER
       /\ claims.rows[i]["Rendering Provider"] # EXCLUDE_PROVIDER

\* ------------------------------------------------------------------- C7
\* The ledger as a batch: the Remittance Normalizer's own output.
EraAsBatch ==
  Batch(UNION { DOMAIN era_full.rows[i] : i \in DOMAIN era_full.rows },
        era_full.rows)

\* The first n rows of the ledger under the five required column names.
EraRenamedBack(n) ==
  Batch(needed_cols,
        [ i \in 1..n |->
            LET r == era_full.rows[i]
            IN  ("Payer" :> r["PAYER"]) @@ ("Method" :> r["METHOD"])
                  @@ ("Dated" :> r["DATE"]) @@ ("Trace" :> r["CHECK/EFT #"])
                  @@ ("Amount" :> r["AMOUNT"]) ])

\* The whole ledger, Grand Total row included, under the required names.
EraLedgerRenamedBack == EraRenamedBack(Len(era_full.rows))

\* The data rows of the ledger (all but its last, Grand Total, row) under the
\* required names.
EraDataRenamedBack == EraRenamedBack(Len(era_full.rows) - 1)

\* The same rows, rows of equal amount in any order.
SameUpToTies(a, b) ==
  /\ Len(a) = Len(b)
  /\ a \in Perms(b)
  /\ \A i \in DOMAIN a : a[i]["AMOUNT"] = b[i]["AMOUNT"]

\* C7 as stated, read in its favour: run on its own output, the ledger with
\* its Grand Total row, given as it is or under the required column names,
\* the Remittance Normalizer succeeds and yields the same ledger up to the
\* order of rows with equal amounts.
C7_IdempotentOnOwnOutput ==
  era_full.made =>
    \E b \in { EraAsBatch, EraLedgerRenamedBack } :
      /\ HasNeededCols(b)
      /\ \A out \in EraFull(b) : SameUpToTies(out, era_full.rows)

\* C7 amended: run on its own output the Remittance Normalizer fails, the
\* ledger's columns not being the five required ones; run on the whole ledger
\* under the required column names it yields another ledger, one row longer,
\* with the old Grand Total as a data row and twice the total; run on the
\* ledger's data rows under the required column names it yields the same
\* ledger, ending with the same Grand Total row, up to the order of rows with
\* equal amounts.
C7_IdempotentOnDataRows ==
  era_full.made =>
    LET n == Len(era_full.rows)
    IN  /\ ~ HasNeededCols(EraAsBatch)
        /\ \A out \in EraFull(EraLedgerRenamedBack) :
             /\ Len(out) = n + 1
             /\ \E i \in 1..n : /\ out[i]["PAYER"] = GrandTotal
                                 /\ out[i]["AMOUNT"] = era_full.rows[n]["AMOUNT"]
             /\ out[n + 1]["AMOUNT"] = Num(2 * era_full.rows[n]["AMOUNT"][2])
        /\ era_full.rows[n]["PAYER"] = GrandTotal
        /\ \A out \in EraFull(EraDataRenamedBack) :
             /\ SameUpToTies(out, era_full.rows)
             /\ out[n] = era_full.rows[n]

\* A ledger of two remittances of different amounts: one with its date
\* written as the text 2025-04-25 and its check number, of a float column,
\* as the text 7.0; one with an empty check number written as the text nan.
C7_Witness ==
  /\ era_full.made
  /\ Len(era_full.rows) = 3
  /\ era_full.rows[1]["AMOUNT"][2] > era_full.rows[2]["AMOUNT"][2]
  /\ era_full.rows[2]["AMOUNT"][2] > 0
  /\ \E i, j \in 1..2 :
       /\ file_era.rows[1]["Dated"] = Date(480)
       /\ era_full.rows[i]["DATE"] = << "dtext", 20250425 >>
       /\ era_full.rows[i]["CHECK/EFT #"] = << "text", "7.0" >>
       /\ era_full.rows[j]["CHECK/EFT #"] = << "text", "nan" >>

\* ------------------------------------------------------------------- C5
\* C5: after a run that came to the ERA step with a remittance upload that
\* lacks a required column, an error was signalled, there is no ERA table, and the steps after the ERA
\* step were still done: the run reached its end and made the workbook.
C5_MissingSchemaKeepsLaterSteps ==
  ( /\ file_era.loaded
    /\ ~ HasNeededCols(file_era)
    /\ enable_export
    /\ unposted.made
    /\ pc \in { "failed", "done" } ) =>
      /\ error # "none"
      /\ ~ era_full.made
      /\ workbook.made

\* ------------------------------------------------------------------- C6
\* C6: after a run that came to the ERA step with both required reports and
\* no remittance upload, no error was raised, the run reached its end, and the workbook, when the
\* export is enabled, was made without an ERA sheet.
C6_NoEraUploadIsNoError ==
  ( /\ df371.loaded /\ df123.loaded
    /\ ~ file_era.loaded
    /\ unposted.made
    /\ pc \in { "failed", "done" } ) =>
      /\ error = "none"
      /\ pc = "done"
      /\ enable_export => (workbook.made /\ ~ workbook.hasERA)

\* ------------------------------------------------------------------- C8
\* Rounding to the nearest integer, an exact half away from zero.
RoundHalfUp(num, den) == (2 * num + den) \div (2 * den)

\* C8: the % Share of every cross-tab row is its Grand Total over the overall
\* Grand Total, times 100, rounded to the nearest integer with exact halves
\* rounded up.
C8_ShareRoundsHalfUp ==
  pt_full.made =>
    \A t \in TotalsOfCrossTab :
      pt_full.rows[t].total > 0 =>
        \A i \in DOMAIN pt_full.rows :
          pt_full.rows[i].share =
            Num(RoundHalfUp(100 * pt_full.rows[i].total, pt_full.rows[t].total))

\* ------------------------------------------------------------------- C9
\* C9: no KPI module changes the claims, the line items or the transactions.
C9_ModulesLeaveBatches ==
  [][ (pc \in { "visits", "payermix", "aging", "monthly", "payments", "era",
                "denials" }) =>
        (claims' = claims /\ line_items' = line_items /\ df123' = df123) ]_vars

====
